---- MODULE Spec2Model ----
(***************************************************************************)
(* fakey.ai: the scan lifecycle of the extension popup, the capture relay  *)
(* of the background service worker and the analysis call.                 *)
(*                                                                         *)
(* The repository holds several builds of the popup.  `impl` selects one:  *)
(*   "popup"      src/popup.js          (vanilla JS, state object + render)*)
(*   "App"        src/App.tsx           (React, startScan)                 *)
(*   "handleScan" src/unnamed/part_000  (React, lines 431-621, handleScan) *)
(*   "App1"       src/unnamed/part_000  (React, lines 23-135, startScan)   *)
(*   "App2"       src/unnamed/part_000  (React, lines 192-340, startScan)  *)
(*   "App3"       src/unnamed/part_001  (React, lines 22-147, startScan)   *)
(* All of them talk to the one background worker, src/background.js.       *)
(*                                                                         *)
(* JavaScript null/undefined is the empty set Null, a present value x is   *)
(* the singleton {x}, so that an optional field is a set of at most one    *)
(* element.                                                                *)
(***************************************************************************)
EXTENDS Integers, Sequences, FiniteSets, TLC

\* Number of startScan() invocations explored in one popup session.
MaxScans == 2

\* Number of popup instances opened one after the other.
MaxOpens == 2

\* Number of messages other than scan requests that reach the worker.
MaxOther == 2

Null == {}
Some(x) == {x}
The(s) == CHOOSE x \in s : TRUE

Impls == {"popup", "App", "handleScan", "App1", "App2", "App3"}
Terminal == {"COMPLETED", "ERROR"}
ScanIds == 1..MaxScans

-----------------------------------------------------------------------------
(* Analysis results: the JSON objects the model may return.                *)

TopFields == {"deepfake_score", "verdict", "integrity", "consistency", "ai_pattern", "temporal"}
MetricFields == {"integrity", "consistency", "ai_pattern", "temporal"}
SubFields == {"score", "notes"}

Metric(s, n) == [score |-> Some(s), notes |-> Some(n)]

\* The payload of the end-to-end scenario: every required field present.
FullResult ==
  [deepfake_score |-> Some(82), verdict |-> Some("Likely Deepfake"),
   integrity   |-> Some(Metric(70, "noise")),
   consistency |-> Some(Metric(60, "ok")),
   ai_pattern  |-> Some(Metric(90, "GAN artifacts")),
   temporal    |-> Some(Metric(50, "n/a"))]

EmptyObject ==
  [deepfake_score |-> Null, verdict |-> Null, integrity |-> Null,
   consistency |-> Null, ai_pattern |-> Null, temporal |-> Null]

Without(o, f) == [o EXCEPT ![f] = Null]
MetricWithout(o, f, g) == [o EXCEPT ![f] = {[m EXCEPT ![g] = Null] : m \in o[f]}]

\* JSON objects a response text may encode: complete, one field short, or {}.
Objects ==
  {FullResult, EmptyObject}
    \cup {Without(FullResult, f) : f \in TopFields}
    \cup {MetricWithout(FullResult, f, g) : f \in MetricFields, g \in SubFields}

\* The required fields of the response schema (AnalysisResult).
HasAllRequired(o) ==
  /\ \A f \in TopFields : o[f] # Null
  /\ \A f \in MetricFields : \A m \in o[f] : \A g \in SubFields : m[g] # Null

\* Response texts: absent (undefined), "", not JSON, or JSON text encoding a
\* value (an object, or the JSON literal null when v = Null).
NoText == Null
Texts ==
  {[kind |-> "empty", v |-> Null], [kind |-> "garbage", v |-> Null], [kind |-> "json", v |-> Null]}
    \cup {[kind |-> "json", v |-> Some(o)] : o \in Objects}

\* !text
Falsy(text) == text = Null \/ (\E t \in text : t.kind = "empty")

\* A parse that swallows the SyntaxError and yields null.
JSONparseLenient(t) ==
  [ok |-> TRUE, v |-> IF t.kind = "json" THEN t.v ELSE Null, msg |-> Null]

\* JSON.parse(text): the parsed value, or a SyntaxError.
JSONparse(t) ==
  IF t.kind = "json"
    THEN [ok |-> TRUE, v |-> t.v, msg |-> Null]
    ELSE [ok |-> FALSE, v |-> Null, msg |-> Some("Unexpected token in JSON")]

-----------------------------------------------------------------------------
VARIABLES
  impl,        \* which build of the popup runs
  instance,    \* which popup instance is open: 1 is the first one opened
  worker,      \* what the worker did with the messages that are not scan requests
  chromeAvail, \* typeof chrome !== 'undefined' && chrome.runtime
  status,      \* state.status / useState status
  result,      \* state.result: Null or Some(object)
  error,       \* state.error: Null or Some(message)
  view,        \* what the popup shows: decides which intents are bound
  task,        \* per startScan invocation: the asynchronous round trips in flight
  nStart,      \* number of startScan invocations so far
  nCapSent,    \* number of capture_tab requests sent so far
  nAnaSent,    \* number of analysis requests issued so far
  hist         \* history of status writes and of the current scan

vars == <<impl, instance, worker, chromeAvail, status, result, error, view, task, nStart, nCapSent, nAnaSent, hist>>


-----------------------------------------------------------------------------
(* Messages and environment outcomes.                                      *)

CaptureTab == [action |-> "capture_tab"]

\* chrome.runtime.lastError.message of a failed captureVisibleTab.
CaptureErrors == {"Permission denied", "No active tab", "Failed to capture tab"}
DataUrls == {"data:image/jpeg;base64,/9j/4AAQ"}

\* What the platform passes to the captureVisibleTab callback: lastError set, a
\* data URL, or no data URL although lastError is unset.
CaptureOutcomes ==
  {[lastError |-> Some(m), dataUrl |-> Null] : m \in CaptureErrors}
    \cup {[lastError |-> Null, dataUrl |-> Some(d)] : d \in DataUrls}
    \cup {[lastError |-> Null, dataUrl |-> Null]}

\* A response as the sendMessage callback of the popup receives it.  def = FALSE
\* is `undefined` (nobody answered).  An undefined property does not survive the
\* message serialisation: {dataUrl: undefined} arrives as {}.
Response(d, e) == [def |-> TRUE, dataUrl |-> d, error |-> e]
Undefined == [def |-> FALSE, dataUrl |-> Null, error |-> Null]

NoReceiverError == "Could not establish connection. Receiving end does not exist."
PortClosedError == "The message port closed before a response was received."

\* What the analysis call comes back with: the request throws (k = "reject"),
\* the HTTP status is not OK (k = "http", msg = errorJson.error?.message), or a
\* response whose candidate text is `text`.
RejectMessages == {"Failed to fetch", ""}
ProviderMessages == {"API key not valid"}

AnalysisOutcomes(i) ==
  {[k |-> "reject", msg |-> Some(m), text |-> NoText] : m \in RejectMessages}
    \cup (IF i = "popup"
            THEN {[k |-> "http", msg |-> e, text |-> NoText] :
                    e \in {Null} \cup {Some(m) : m \in ProviderMessages}}
            ELSE {[k |-> "reject", msg |-> Some(m), text |-> NoText] : m \in ProviderMessages})
    \cup {[k |-> "ok", msg |-> Null, text |-> t] : t \in {NoText} \cup {Some(x) : x \in Texts}}

AllAnalysisOutcomes == UNION {AnalysisOutcomes(i) : i \in Impls}

\* a || b on optional strings: the empty string is falsy.
OrElse(m, fallback) == IF m = Null \/ m = Some("") THEN fallback ELSE The(m)

-----------------------------------------------------------------------------
(* src/background.js                                                       *)

\* Messages of the extension that are not scan requests: the command of the
\* content script, one the extension has no handler for, one with an empty
\* action.
OtherRequests == {[action |-> "get_media_info"], [action |-> "ping"], [action |-> ""]}

\* A listener that captures on every message, not testing request.action.
ListenerCapturesAnything(request) == TRUE

\* The onMessage listener: whether it starts a capture.
ListenerCaptures(request) == request.action = "capture_tab"

\* A listener without its `return true`.
ListenerReturnsNothing(request) == FALSE

\* The listener's return value: true keeps the response channel open.
ListenerReturnsTrue(request) == request.action = "capture_tab"

\* A callback whose lastError branch falls through into the success branch.
CaptureCallbackFallsThrough(lastError, dataUrl) ==
  IF lastError # Null
    THEN <<Response(Null, lastError), Response(dataUrl, Null)>>
    ELSE <<Response(dataUrl, Null)>>

\* The captureVisibleTab callback: the sendResponse calls it makes, in order.
CaptureCallbackResponses(lastError, dataUrl) ==
  IF lastError # Null
    THEN <<Response(Null, lastError)>>
    ELSE <<Response(dataUrl, Null)>>

-----------------------------------------------------------------------------
(* The view: render() of popup.js, the JSX of the React builds.            *)

\* The TypeError thrown while the COMPLETED branch is evaluated, if any.
RenderError(i, r) ==
  IF r = Null THEN Null
  ELSE LET o == The(r) IN
    IF i \in {"handleScan", "App2"}
      THEN IF \E f \in MetricFields : o[f] = Null
             THEN Some("Cannot read properties of undefined (reading 'score')")
             ELSE Null
      ELSE IF o.verdict = Null
             THEN Some("Cannot read properties of undefined (reading 'toUpperCase')")
           ELSE IF o.integrity = Null \/ o.ai_pattern = Null
             THEN Some("Cannot read properties of undefined (reading 'notes')")
           ELSE Null

\* What is on screen after rendering (s, r) over the previous view `old`.
\* popup.js throws before root.innerHTML is assigned, so the old DOM stays;
\* a React build without error boundary unmounts the whole tree.
RenderView(i, s, r, old) ==
  IF i # "popup" /\ old = "crashed" THEN "crashed"
  ELSE IF s = "COMPLETED" /\ r = Null THEN "blank"
  ELSE IF s = "COMPLETED" /\ RenderError(i, r) # Null
    THEN (IF i = "popup" THEN old ELSE "crashed")
  ELSE s

\* A render() that catches the TypeError of its COMPLETED branch itself and
\* turns the scan into a failure.
RenderRecovers(i, s, r, e, old) ==
  IF s = "COMPLETED" /\ r # Null /\ RenderError(i, r) # Null
    THEN [status |-> "ERROR", result |-> Null, error |-> RenderError(i, r), view |-> "ERROR"]
    ELSE [status |-> s, result |-> r, error |-> e, view |-> RenderView(i, s, r, old)]

\* render() on state (s, r, e) over the previous view `old`: the state it
\* leaves and the view it draws.  It builds the markup from the state and
\* binds the click handlers; it assigns no field of the state.
Render(i, s, r, e, old) ==
  [status |-> s, result |-> r, error |-> e, view |-> RenderView(i, s, r, old)]

\* A view with a cancel control, bound to the reset intent, beside the spinner.
BoundWithCancel(v) ==
  CASE v = "IDLE" -> {"start"}
    [] v = "SCANNING" -> {"reset"}
    [] v = "COMPLETED" -> {"reset"}
    [] v = "ERROR" -> {"retry"}
    [] OTHER -> {}

\* A view that keeps the scan button while the scan runs.
BoundWhileScanning(v) ==
  CASE v \in {"IDLE", "SCANNING"} -> {"start"}
    [] v = "COMPLETED" -> {"reset"}
    [] v = "ERROR" -> {"retry"}
    [] OTHER -> {}

\* The intents the view binds.
Bound(v) ==
  CASE v = "IDLE" -> {"start"}
    [] v = "COMPLETED" -> {"reset"}
    [] v = "ERROR" -> {"retry"}
    [] OTHER -> {}


-----------------------------------------------------------------------------
(* The popup controller: startScan / handleScan and performAnalysis.       *)

CaptureFailedMessage == "Capture failed. Ensure the extension has permission to access the current tab."

\* A startScan() whose App.tsx build, too, falls back to analysing a built-in
\* image when chrome.runtime is missing.
StartScanWithFallbackEverywhere(i, avail, s, r, e) ==
  [status |-> "SCANNING", result |-> IF i = "handleScan" THEN Null ELSE r,
   error |-> IF i = "App1" THEN e ELSE Null, writes |-> <<"SCANNING">>,
   launch |-> IF avail THEN "send" ELSE IF i = "popup" THEN "throw" ELSE "timer"]

\* A startScan() that calls chrome.runtime.sendMessage without testing that
\* chrome.runtime exists, and is taken to succeed in doing so.
StartScanUnguarded(i, avail, s, r, e) ==
  [status |-> "SCANNING", result |-> IF i = "handleScan" THEN Null ELSE r,
   error |-> IF i = "App1" THEN e ELSE Null, writes |-> <<"SCANNING">>, launch |-> "send"]

\* A startScan() whose `else` branch is missing wherever it only reports the
\* unavailable runtime.
StartScanWithoutElse(i, avail, s, r, e) ==
  [status |-> "SCANNING", result |-> IF i = "handleScan" THEN Null ELSE r,
   error |-> IF i = "App1" THEN e ELSE Null, writes |-> <<"SCANNING">>,
   launch |-> IF avail THEN "send"
              ELSE IF i = "popup" THEN "throw"
              ELSE IF i \in {"handleScan", "App2"} THEN "timer"
              ELSE "none"]

\* The synchronous part of startScan(): the state it leaves, the status values
\* it writes in order, and what it launches ("send": one capture_tab request,
\* "timer": the setTimeout fallback, "throw": chrome is not defined and the
\* call throws, "none": nothing).
StartScanEffect(i, avail, s, r, e) ==
  CASE i = "popup" ->
         [status |-> "SCANNING", result |-> r, error |-> Null, writes |-> <<"SCANNING">>,
          launch |-> IF avail THEN "send" ELSE "throw"]
    [] i = "App" ->
         IF avail
           THEN [status |-> "SCANNING", result |-> r, error |-> Null,
                 writes |-> <<"SCANNING">>, launch |-> "send"]
           ELSE [status |-> "ERROR", result |-> r,
                 error |-> Some("Extension environment unavailable."),
                 writes |-> <<"SCANNING", "ERROR">>, launch |-> "none"]
    [] i = "handleScan" ->
         [status |-> "SCANNING", result |-> Null, error |-> Null, writes |-> <<"SCANNING">>,
          launch |-> IF avail THEN "send" ELSE "timer"]
    [] i = "App1" ->
         [status |-> "SCANNING", result |-> r, error |-> e, writes |-> <<"SCANNING">>,
          launch |-> IF avail THEN "send" ELSE "none"]
    [] i = "App2" ->
         [status |-> "SCANNING", result |-> r, error |-> Null, writes |-> <<"SCANNING">>,
          launch |-> IF avail THEN "send" ELSE "timer"]
    [] i = "App3" ->
         IF avail
           THEN [status |-> "SCANNING", result |-> r, error |-> Null,
                 writes |-> <<"SCANNING">>, launch |-> "send"]
           ELSE [status |-> "ERROR", result |-> r,
                 error |-> Some("Extension environment not detected."),
                 writes |-> <<"SCANNING", "ERROR">>, launch |-> "none"]

\* The setTimeout callback of the branch taken without chrome.runtime: run
\* performAnalysis on the built-in image (analyse), or fail the scan.
OnTimer(i) ==
  IF i = "App2"
    THEN [analyse |-> FALSE, error |-> Some("Extension environment not detected.")]
    ELSE [analyse |-> TRUE, error |-> Null]

\* A sendMessage callback that tests only that somebody answered, not that the
\* answer holds a dataUrl.
OnCaptureResponseUnchecked(i, lastError, response) ==
  IF lastError = Null /\ response.def
    THEN [analyse |-> TRUE, error |-> Null]
    ELSE [analyse |-> FALSE, error |-> Some(CaptureFailedMessage)]

\* A sendMessage callback that stores the error of the response as it is,
\* with no fallback for a response that carries none.
OnCaptureResponseNoFallback(i, lastError, response) ==
  IF lastError = Null /\ response.dataUrl # Null
    THEN [analyse |-> TRUE, error |-> Null]
    ELSE [analyse |-> FALSE, error |-> response.error]

\* The sendMessage callback: run performAnalysis on the data URL (analyse), or
\* fail the scan with `error`.
OnCaptureResponse(i, lastError, response) ==
  CASE i = "popup" ->
         IF lastError # Null \/ ~response.def \/ response.dataUrl = Null
           THEN [analyse |-> FALSE, error |-> Some(CaptureFailedMessage)]
           ELSE [analyse |-> TRUE, error |-> Null]
    [] i = "App" ->
         IF response.dataUrl # Null
           THEN [analyse |-> TRUE, error |-> Null]
           ELSE [analyse |-> FALSE,
                 error |-> Some(OrElse(response.error, "Tab capture failed. Check permissions."))]
    [] i = "handleScan" ->
         IF lastError # Null THEN [analyse |-> FALSE, error |-> lastError]
         ELSE IF response.def /\ response.dataUrl # Null THEN [analyse |-> TRUE, error |-> Null]
         ELSE IF response.def /\ response.error # Null THEN [analyse |-> FALSE, error |-> response.error]
         ELSE [analyse |-> FALSE, error |-> Some("Failed to capture screen.")]
    [] i = "App1" ->
         IF response.dataUrl # Null
           THEN [analyse |-> TRUE, error |-> Null]
           ELSE [analyse |-> FALSE, error |-> Some(OrElse(response.error, "Capture failed"))]
    [] i = "App2" ->
         IF response.dataUrl # Null
           THEN [analyse |-> TRUE, error |-> Null]
           ELSE [analyse |-> FALSE,
                 error |-> Some(OrElse(response.error, "Capture denied by system."))]
    [] i = "App3" ->
         IF response.dataUrl # Null
           THEN [analyse |-> TRUE, error |-> Null]
           ELSE [analyse |-> FALSE,
                 error |-> Some(OrElse(response.error, "Permission denied for screen capture."))]

\* The message of empty-text failures, per build.
EmptyMessage(i) ==
  CASE i = "popup" -> "Empty analysis result."
    [] i = "App" -> "Empty response from AI"
    [] i = "handleScan" -> "Empty analysis response"
    [] i = "App3" -> "Analysis engine returned null."

\* The fallback of `err.message || ...` in the catch block, per build.
CatchFallback(i) ==
  CASE i = "popup" -> "Forensic analysis failed."
    [] i = "App" -> "Forensic analysis failed."
    [] i = "handleScan" -> "Analysis failed. The image might be too large or incompatible."
    [] i = "App2" -> "Forensic node failure."
    [] i = "App3" -> "Forensic capture failed."

\* The message the catch block stores for an exception whose message is msg:
\* `err.message || fallback`, and in App1 `err.message` as it is.
CatchError(i, msg) == IF i = "App1" THEN msg ELSE Some(OrElse(msg, CatchFallback(i)))

\* The text handed to JSON.parse: App1 and App2 read `response.text || '{}'`.
TextOrDefault(i, text) ==
  IF i \in {"App1", "App2"} /\ Falsy(text)
    THEN Some([kind |-> "json", v |-> Some(EmptyObject)])
    ELSE text

\* The body of performAnalysis up to its last statement, on analysis outcome
\* `o`: the exception it throws (thrown), or the result it stores.
AnalysisBody(i, o) ==
  IF o.k = "reject" THEN [thrown |-> o.msg, stored |-> FALSE, value |-> Null]
  ELSE IF o.k = "http"
    THEN [thrown |-> Some(OrElse(o.msg, "API error")), stored |-> FALSE, value |-> Null]
  ELSE IF Falsy(TextOrDefault(i, o.text))
    THEN [thrown |-> Some(EmptyMessage(i)), stored |-> FALSE, value |-> Null]
  ELSE LET p == JSONparse(The(TextOrDefault(i, o.text))) IN
    IF p.ok THEN [thrown |-> Null, stored |-> TRUE, value |-> p.v]
            ELSE [thrown |-> p.msg, stored |-> FALSE, value |-> Null]

\* A performAnalysis that keeps a result it already holds instead of storing
\* the new one.
PerformAnalysisKeepsFirst(i, o, s, r, e, v) ==
  LET b == AnalysisBody(i, o)
      kept == IF r # Null THEN r ELSE b.value
  IN
  IF b.stored
    THEN [status |-> "COMPLETED", result |-> kept, error |-> e, writes |-> <<"COMPLETED">>,
          rejected |-> IF i = "popup" THEN RenderError(i, kept) ELSE Null]
  ELSE IF i = "popup"
    THEN [status |-> s, result |-> r, error |-> e, writes |-> << >>, rejected |-> b.thrown]
  ELSE [status |-> "ERROR", result |-> r, error |-> CatchError(i, b.thrown),
        writes |-> <<"ERROR">>, rejected |-> Null]

\* performAnalysis as a whole, from state (s, r, e) showing view v: the state it
\* leaves, the status values it writes, and the exception that leaves it
\* (popup.js has no try/catch of its own, and its render() may throw after
\* status = 'COMPLETED'; the React builds catch everything themselves).
PerformAnalysis(i, o, s, r, e, v) ==
  LET b == AnalysisBody(i, o) IN
  IF i = "popup"
    THEN IF b.stored
           THEN [status |-> "COMPLETED", result |-> b.value, error |-> e,
                 writes |-> <<"COMPLETED">>, rejected |-> RenderError(i, b.value)]
           ELSE [status |-> s, result |-> r, error |-> e, writes |-> << >>, rejected |-> b.thrown]
    ELSE IF b.stored
           THEN [status |-> "COMPLETED", result |-> b.value, error |-> e,
                 writes |-> <<"COMPLETED">>, rejected |-> Null]
           ELSE [status |-> "ERROR", result |-> r, error |-> CatchError(i, b.thrown),
                 writes |-> <<"ERROR">>, rejected |-> Null]

\* The reset / retry / new-scan handlers: only the status is assigned.
ResetEffect(i, s, r, e) == [status |-> "IDLE", result |-> r, error |-> e]


-----------------------------------------------------------------------------
(* State.                                                                  *)

\* One startScan invocation's asynchronous chain.
\*   ph        idle, sent (capture_tab in transit), capturing (captureVisibleTab
\*             pending in the worker), unanswered (the worker's callback ran and
\*             sent nothing), responded (response in transit to the popup), timer
\*             (setTimeout fallback pending), fetching (analysis call pending),
\*             rejected (performAnalysis threw, the catch block is pending), done
\*   recv      the worker's listener received the request
\*   open      the listener returned true: the response channel is open
\*   bgErr     lastError the worker's capture callback saw
\*   nresp     number of sendResponse calls made for the request
\*   resp      the response the popup's callback receives
\*   lastError chrome.runtime.lastError in the popup's callback
\*   src       where the image given to performAnalysis came from
\*   err       the message of the exception performAnalysis threw
\*   orphan    the popup instance that started the chain has been closed
IdleTask ==
  [ph |-> "idle", recv |-> FALSE, open |-> FALSE, bgErr |-> Null, nresp |-> 0,
   resp |-> Undefined, lastError |-> Null, src |-> "none", err |-> Null, orphan |-> FALSE]

\* A chain that, instead of ending, sends its capture_tab request again.
FinishedRetries(t) == [IdleTask EXCEPT !.ph = "sent"]

\* A finished chain keeps only what the worker did for it.
Finished(t) ==
  [IdleTask EXCEPT !.ph = "done", !.recv = t.recv, !.nresp = t.nresp, !.orphan = t.orphan]

\* History of status writes: n counts the entries into SCANNING since the last
\* entry into IDLE, COMPLETED or ERROR; pre is n as it was when the status last
\* entered COMPLETED or ERROR.  wrote is the state as the last handler assigned
\* it, before it rendered.
Track(h, s) ==
  IF s = "SCANNING" THEN [h EXCEPT !.n = h.n + 1]
  ELSE IF s \in Terminal THEN [h EXCEPT !.n = 0, !.pre = h.n]
  ELSE [h EXCEPT !.n = 0]

RECURSIVE TrackAll(_, _)
TrackAll(h, w) == IF w = << >> THEN h ELSE TrackAll(Track(h, Head(w)), Tail(w))

\* The history of a popup instance that has just been opened.
NoHistory ==
  [n |-> 0, pre |-> 1, seen |-> Null, ana |-> Null, wrote |-> <<"IDLE", Null, Null>>]

Init ==
  /\ impl \in Impls
  /\ instance = 1
  /\ worker = [n |-> 0, last |-> Null, captures |-> 0, responses |-> 0, kept |-> 0]
  /\ chromeAvail \in BOOLEAN
  /\ status = "IDLE"
  /\ result = Null
  /\ error = Null
  /\ view = "IDLE"
  /\ task = [id \in ScanIds |-> IdleTask]
  /\ nStart = 0
  /\ nCapSent = 0
  /\ nAnaSent = 0
  /\ hist = NoHistory

\* Store (s, r, e), having written the status values w in order, and render.
\* A React tree that was unmounted by a render error takes no state update.
Commit(s, r, e, w, h) ==
  IF impl # "popup" /\ view = "crashed"
    THEN /\ UNCHANGED <<status, result, error, view>>
         /\ hist' = h
    ELSE LET rd == IF w = << >>
                     THEN [status |-> s, result |-> r, error |-> e, view |-> view]
                     ELSE Render(impl, s, r, e, view)
         IN /\ status' = rd.status
            /\ result' = rd.result
            /\ error' = rd.error
            /\ view' = rd.view
            /\ hist' = [TrackAll(h, w) EXCEPT !.wrote = <<s, r, e>>]

-----------------------------------------------------------------------------
(* Actions.                                                                *)

\* startScan() / handleScan(), whoever calls it.
Start ==
  LET id == nStart + 1
      eff == StartScanEffect(impl, chromeAvail, status, result, error)
  IN /\ nStart < MaxScans
     /\ nStart' = id
     /\ task' = [task EXCEPT ![id] =
                   IF eff.launch = "send" THEN [IdleTask EXCEPT !.ph = "sent"]
                   ELSE IF eff.launch = "timer" THEN [IdleTask EXCEPT !.ph = "timer"]
                   ELSE Finished(IdleTask)]
     /\ nCapSent' = nCapSent + (IF eff.launch = "send" THEN 1 ELSE 0)
     /\ Commit(eff.status, eff.result, eff.error, eff.writes,
               [hist EXCEPT !.seen = Null, !.ana = Null])
     /\ UNCHANGED <<impl, instance, worker, chromeAvail, nAnaSent>>

\* The user clicks the scan button: it exists only in the IDLE view.
StartScan ==
  /\ "start" \in Bound(view)
  /\ Start

\* The user clicks NEW ANALYSIS / RETRY PROTOCOL.
Reset ==
  LET eff == ResetEffect(impl, status, result, error)
  IN /\ Bound(view) \cap {"reset", "retry"} # {}
     /\ Commit(eff.status, eff.result, eff.error, <<"IDLE">>, hist)
     /\ UNCHANGED <<impl, instance, worker, chromeAvail, task, nStart, nCapSent, nAnaSent>>

\* No listener takes the message: the popup's callback gets undefined, with
\* chrome.runtime.lastError set.
NoReceiver(id) ==
  /\ task[id].ph = "sent"
  /\ task' = [task EXCEPT ![id].ph = "responded", ![id].resp = Undefined,
                          ![id].lastError = Some(NoReceiverError)]
  /\ UNCHANGED <<impl, instance, worker, chromeAvail, status, result, error, view, nStart, nCapSent, nAnaSent, hist>>

\* background.js: the onMessage listener runs on the request.
BgListener(id) ==
  /\ task[id].ph = "sent"
  /\ task' = [task EXCEPT ![id] =
                IF ListenerCaptures(CaptureTab)
                  THEN [@ EXCEPT !.ph = "capturing", !.recv = TRUE,
                                 !.open = ListenerReturnsTrue(CaptureTab)]
                  ELSE [@ EXCEPT !.ph = "responded", !.recv = TRUE, !.resp = Undefined,
                                 !.lastError = Some(PortClosedError)]]
  /\ UNCHANGED <<impl, instance, worker, chromeAvail, status, result, error, view, nStart, nCapSent, nAnaSent, hist>>

\* background.js: the captureVisibleTab callback runs with outcome `out`.
\* Only the first sendResponse on an open channel reaches the popup.
BgCaptureCallback(id, out) ==
  LET rs == CaptureCallbackResponses(out.lastError, out.dataUrl)
      t == task[id]
  IN /\ t.ph = "capturing"
     /\ task' = [task EXCEPT ![id] =
                   IF ~t.open
                     THEN [t EXCEPT !.ph = "responded", !.bgErr = out.lastError, !.nresp = Len(rs),
                                    !.resp = Undefined, !.lastError = Some(PortClosedError)]
                   ELSE IF rs = << >>
                     THEN [t EXCEPT !.ph = "unanswered", !.bgErr = out.lastError]
                   ELSE [t EXCEPT !.ph = "responded", !.bgErr = out.lastError, !.nresp = Len(rs),
                                  !.resp = rs[1]]]
     /\ UNCHANGED <<impl, instance, worker, chromeAvail, status, result, error, view, nStart, nCapSent, nAnaSent, hist>>

\* A response that reaches the callback of a popup instance whichever
\* instance sent the request.
DeliveredToAnyInstance(t) == TRUE

\* The callback passed to sendMessage lives in the popup instance that sent
\* the request: the response reaches it only while that instance is open.
Delivered(t) == ~t.orphan

\* The popup's sendMessage callback runs on the response.
PopupCaptureCallback(id) ==
  LET t == task[id]
      d == OnCaptureResponse(impl, t.lastError, t.resp)
      h == [hist EXCEPT !.seen = Some([lastError |-> t.lastError, resp |-> t.resp])]
  IN /\ t.ph = "responded"
     /\ Delivered(t)
     /\ IF d.analyse
          THEN /\ task' = [task EXCEPT ![id].ph = "fetching",
                             ![id].src = IF t.resp.dataUrl # Null THEN "capture" ELSE "none"]
               /\ nAnaSent' = nAnaSent + 1
               /\ hist' = h
               /\ UNCHANGED <<status, result, error, view>>
          ELSE /\ task' = [task EXCEPT ![id] = Finished(t)]
               /\ nAnaSent' = nAnaSent
               /\ Commit("ERROR", result, d.error, <<"ERROR">>, h)
     /\ UNCHANGED <<impl, instance, worker, chromeAvail, nStart, nCapSent>>

\* The timer set without chrome.runtime fires: handleScan's development
\* fallback runs performAnalysis on the built-in image, App2 fails the scan.
TimerFires(id) ==
  LET t == task[id]
      d == OnTimer(impl)
  IN /\ t.ph = "timer"
     /\ IF d.analyse
          THEN /\ task' = [task EXCEPT ![id].ph = "fetching", ![id].src = "fallback"]
               /\ nAnaSent' = nAnaSent + 1
               /\ UNCHANGED <<status, result, error, view, hist>>
          ELSE /\ task' = [task EXCEPT ![id] = Finished(t)]
               /\ nAnaSent' = nAnaSent
               /\ Commit("ERROR", result, d.error, <<"ERROR">>, hist)
     /\ UNCHANGED <<impl, instance, worker, chromeAvail, nStart, nCapSent>>

\* The analysis call comes back with outcome o and performAnalysis finishes.
AnalysisReturns(id, o) ==
  LET t == task[id]
      p == PerformAnalysis(impl, o, status, result, error, view)
  IN /\ t.ph = "fetching"
     /\ o \in AnalysisOutcomes(impl)
     /\ task' = [task EXCEPT ![id] =
                   IF p.rejected # Null
                     THEN [t EXCEPT !.ph = "rejected", !.err = p.rejected]
                     ELSE Finished(t)]
     /\ Commit(p.status, p.result, p.error, p.writes, [hist EXCEPT !.ana = Some(o)])
     /\ UNCHANGED <<impl, instance, worker, chromeAvail, nStart, nCapSent, nAnaSent>>

\* popup.js: the awaited promise was rejected and the catch block runs.
CatchRejected(id) ==
  LET t == task[id]
  IN /\ t.ph = "rejected"
     /\ task' = [task EXCEPT ![id] = Finished(t)]
     /\ Commit("ERROR", result, CatchError(impl, t.err), <<"ERROR">>, hist)
     /\ UNCHANGED <<impl, instance, worker, chromeAvail, nStart, nCapSent, nAnaSent>>

Next ==
  \/ StartScan
  \/ Reset
  \/ \E id \in ScanIds : NoReceiver(id)
  \/ \E id \in ScanIds : BgListener(id)
  \/ \E id \in ScanIds : \E out \in CaptureOutcomes : BgCaptureCallback(id, out)
  \/ \E id \in ScanIds : PopupCaptureCallback(id)
  \/ \E id \in ScanIds : TimerFires(id)
  \/ \E id \in ScanIds : \E o \in AllAnalysisOutcomes : AnalysisReturns(id, o)
  \/ \E id \in ScanIds : CatchRejected(id)

Spec == Init /\ [][Next]_vars


\* The controller's operation invoked directly, whatever the view shows:
\* startScan() while a scan is in flight.
StartScanWhileScanning ==
  /\ status = "SCANNING"
  /\ view # "crashed"
  /\ Start

NextCtl == Next \/ StartScanWhileScanning

\* The controller's operations as an interface: startScan() may be called in
\* any state, not only through the button of the IDLE view.
SpecCtl == Init /\ [][NextCtl]_vars

\* A popup instance that takes its state over from the instance before it.
PopupOpensRestored(s, r, e) == [status |-> s, result |-> r, error |-> e]

\* The state a popup instance is created with, (s, r, e) being the state the
\* previous instance was closed in: the script runs again from its top, no
\* build reads or writes any storage.
PopupOpens(s, r, e) == [status |-> "IDLE", result |-> Null, error |-> Null]

\* What closing the popup makes of a chain: a request the worker holds stays
\* with the worker, its response has no callback left to run; timers, the
\* analysis call and its continuations end with the popup's context.
Closed(t) ==
  IF t.ph \in {"sent", "capturing", "responded"} THEN [t EXCEPT !.orphan = TRUE]
  ELSE IF t.ph \in {"timer", "fetching", "rejected"} THEN Finished([t EXCEPT !.orphan = TRUE])
  ELSE t

\* The user closes the popup and opens it again: a new instance boots and
\* renders (DOMContentLoaded).
Reopen ==
  LET o == PopupOpens(status, result, error)
  IN /\ instance < MaxOpens
     /\ instance' = instance + 1
     /\ status' = o.status
     /\ result' = o.result
     /\ error' = o.error
     /\ view' = RenderView(impl, o.status, o.result, "IDLE")
     /\ task' = [id \in ScanIds |-> Closed(task[id])]
     /\ hist' = NoHistory
     /\ UNCHANGED <<impl, worker, chromeAvail, nStart, nCapSent, nAnaSent>>

\* The worker answered a request whose popup instance is gone: the response
\* is dropped.
ResponseDropped(id) ==
  /\ task[id].ph = "responded"
  /\ ~Delivered(task[id])
  /\ task' = [task EXCEPT ![id] = Finished(task[id])]
  /\ UNCHANGED <<impl, instance, worker, chromeAvail, status, result, error, view, nStart, nCapSent, nAnaSent, hist>>

\* background.js: the onMessage listener runs on a message that is not a scan
\* request.  worker counts such messages (n, the last one in last), the
\* captures the listener starts for them, the responses those captures'
\* callbacks send (sendResponse is called nowhere else) and the channels the
\* listener keeps open by returning true.
OtherMessage(request) ==
  LET c == IF ListenerCaptures(request) THEN 1 ELSE 0
  IN /\ worker.n < MaxOther
     /\ worker' = [n |-> worker.n + 1,
                   last |-> Some(request),
                   captures |-> worker.captures + c,
                   responses |-> worker.responses + c,
                   kept |-> worker.kept + (IF ListenerReturnsTrue(request) THEN 1 ELSE 0)]
     /\ UNCHANGED <<impl, instance, chromeAvail, status, result, error, view, task, nStart, nCapSent, nAnaSent, hist>>

NextMsg == Next \/ (\E request \in OtherRequests : OtherMessage(request))

\* The extension with other messages arriving at the worker between the steps
\* of the scans.
SpecMsg == Init /\ [][NextMsg]_vars

NextOpen == Next \/ Reopen \/ (\E id \in ScanIds : ResponseDropped(id))

\* The popup as the user can drive it, closing and reopening included.
SpecOpen == Init /\ [][NextOpen]_vars

\* The platform eventually runs the callbacks it was handed.
FairSpec ==
  /\ Spec
  /\ WF_vars(\E id \in ScanIds : BgListener(id) \/ NoReceiver(id))
  /\ WF_vars(\E id \in ScanIds : \E out \in CaptureOutcomes : BgCaptureCallback(id, out))
  /\ WF_vars(\E id \in ScanIds : PopupCaptureCallback(id))


-----------------------------------------------------------------------------
(* Properties.                                                             *)

\* The chain of the most recent startScan invocation.
Current == task[nStart]
InAnalysis(t) == t.ph \in {"fetching", "rejected"}

\* C1: every entry of the status into COMPLETED or ERROR is preceded by exactly
\* one entry into SCANNING since the previous entry into IDLE, COMPLETED or
\* ERROR; the status never passes from one terminal state to another.
C1_TerminalAfterOneScanning == status \in Terminal => hist.pre = 1

\* C2: startScan() invoked while the status is SCANNING sends no second
\* capture_tab request and leaves status, result and error as they are.
C2_StartWhileScanningIsNoOp ==
  [][(status = "SCANNING" /\ nStart' = nStart + 1)
       => (nCapSent' = nCapSent /\ status' = status /\ result' = result /\ error' = error)]_vars

\* C3: reset taken from COMPLETED or ERROR yields IDLE with result = null and
\* error = null.
C3_ResetClearsResultAndError ==
  [][(status \in Terminal /\ status' = "IDLE") => (result' = Null /\ error' = Null)]_vars

\* The analysis outcome carries text that parses as JSON to a value lacking a
\* required field.
LacksRequired(o) ==
  /\ o.k = "ok"
  /\ ~Falsy(o.text)
  /\ JSONparse(The(o.text)).ok
  /\ \A v \in JSONparse(The(o.text)).v : ~HasAllRequired(v)

\* C4: when the analysis text of the scan parses as JSON but lacks a required
\* field, the status does not become COMPLETED and state.result does not hold
\* the value parsed from that text.
C4_IncompletePayloadIsRejected ==
  \A o \in hist.ana :
    LacksRequired(o) =>
      /\ status # "COMPLETED"
      /\ JSONparse(The(o.text)).v # Null => result # JSONparse(The(o.text)).v

\* C5: when the capture response is {error: m}, the scan ends with status ERROR
\* and the stored error is m.
C5_CaptureErrorMessageIsKept ==
  \A s \in hist.seen :
    (s.resp.def /\ s.resp.error # Null) =>
      /\ status \in {"ERROR", "IDLE"}
      /\ status = "ERROR" => error = s.resp.error

\* The popup's callback got no image: undefined, no dataUrl, or lastError set.
NoImage(s) == s.lastError # Null \/ ~s.resp.def \/ s.resp.dataUrl = Null

\* C6: in a scan whose capture response carries no image, no analysis request
\* is issued.
C6_NoAnalysisWithoutImage ==
  \A s \in hist.seen :
    NoImage(s) => (~InAnalysis(Current) /\ hist.ana = Null /\ Current.src = "none")

\* A scan failed on an error response of the worker and nothing was analysed.
C6_Witness ==
  /\ status = "ERROR"
  /\ nAnaSent = 0
  /\ \E s \in hist.seen : s.resp.error = Some("Permission denied")

\* C7 as claimed: performAnalysis runs only after a capture response with a
\* dataUrl came back for the same scan.
C7_AnalysisOnlyAfterCapture ==
  \A id \in ScanIds : InAnalysis(task[id]) => task[id].src = "capture"

\* C7 as amended: an analysis runs after the capture round trip of its scan
\* returned an image, or it is handleScan's fallback in an environment without
\* chrome.runtime, which captures nothing.
C7_AnalysisAfterCaptureOrFallback ==
  \A id \in ScanIds :
    InAnalysis(task[id]) =>
      \/ /\ task[id].src = "capture"
         /\ task[id].nresp = 1
         /\ \E s \in hist.seen : ~NoImage(s)
      \/ /\ task[id].src = "fallback"
         /\ impl = "handleScan"
         /\ ~chromeAvail
         /\ nCapSent = 0

\* An analysis call is pending on the image a capture returned.
C7_Witness ==
  \E id \in ScanIds :
    /\ task[id].ph = "fetching"
    /\ task[id].src = "capture"
    /\ nCapSent = nAnaSent

\* C8: every capture_tab request the worker receives gets exactly one response:
\* never two, and the pending capture always ends in one sendResponse.
C8_ExactlyOneResponse ==
  /\ [](\A id \in ScanIds :
          /\ task[id].nresp <= 1
          /\ task[id].ph # "unanswered"
          /\ (task[id].recv /\ task[id].ph # "capturing") => task[id].nresp = 1)
  /\ \A id \in ScanIds : (task[id].ph = "capturing") ~> (task[id].nresp = 1)

\* The worker answered a request whose capture failed.
C8_Witness ==
  \E id \in ScanIds :
    /\ task[id].ph = "responded"
    /\ task[id].recv
    /\ task[id].nresp = 1
    /\ task[id].bgErr # Null

\* C9: every response of the worker carries either a dataUrl or an error, never
\* both and never neither.
C9_ResponseIsImageOrError ==
  \A id \in ScanIds :
    (task[id].ph = "responded" /\ task[id].recv /\ task[id].resp.def) =>
      (task[id].resp.dataUrl # Null) # (task[id].resp.error # Null)

\* C10: the listener keeps the channel open while the capture is pending, and a
\* capture that failed with lastError is answered with {error: message}.
C10_CaptureFailureIsAnswered ==
  \A id \in ScanIds :
    /\ task[id].ph = "capturing" => task[id].open
    /\ (task[id].ph = "responded" /\ task[id].bgErr # Null) =>
         /\ task[id].open
         /\ task[id].lastError = Null
         /\ task[id].resp = Response(Null, task[id].bgErr)

\* The popup is about to receive {error: "No active tab"}.
C10_Witness ==
  \E id \in ScanIds :
    /\ task[id].ph = "responded"
    /\ task[id].bgErr = Some("No active tab")
    /\ task[id].resp.error = Some("No active tab")

\* A continuation of the chain is still to run: a message or response in
\* transit, a capture, a timer or an analysis call pending, a catch block due.
Pending(t) == t.ph \in {"sent", "capturing", "responded", "timer", "fetching", "rejected"}

\* C11: SCANNING is transient.  Every callback that is pending eventually runs,
\* so a scan can stay in SCANNING for ever only if nothing is pending: while
\* the status is SCANNING some continuation of a scan is still to run, in
\* every environment (chrome.runtime available or not).
C11_ScanningHasContinuation ==
  status = "SCANNING" => \E id \in ScanIds : Pending(task[id])

\* C12: no terminal state is a dead end.  Whenever the status is COMPLETED or
\* ERROR and the scan has run to its end, the view shows a control bound to
\* the reset intent (NEW ANALYSIS or RETRY), whatever payload or error the
\* scan ended with.
C12_ResetAvailableInTerminal ==
  (status \in Terminal /\ ~(\E id \in ScanIds : Pending(task[id])))
    => Bound(view) \cap {"reset", "retry"} # {}

\* C13: startScan() moves the status to SCANNING and clears both the prior
\* result and the prior error: right after a startScan() that left the status
\* SCANNING, result is null and error is null.
C13_StartScanClearsResultAndError ==
  [][(nStart' = nStart + 1 /\ status' = "SCANNING") => (result' = Null /\ error' = Null)]_vars

\* C14 (as claimed): every execution of startScan() sends exactly one
\* capture_tab request, never zero and never more, in every environment.
C14_ExactlyOneCaptureRequest ==
  [][nStart' = nStart + 1 => nCapSent' = nCapSent + 1]_vars

\* C14 (amended): every execution of startScan() sends exactly one capture_tab
\* request when chrome.runtime is available and none when it is not; it never
\* sends more than one.
C14_OneCaptureRequestIfAvailable ==
  [][nStart' = nStart + 1 => nCapSent' = nCapSent + (IF chromeAvail THEN 1 ELSE 0)]_vars

\* Two scans were started with chrome.runtime available, two requests sent.
C14_Witness == chromeAvail /\ nStart = 2 /\ nCapSent = 2 /\ task[2].ph = "sent"

\* The analysis call returned a response without text (missing or empty).
NoTextOutcome(o) == o.k = "ok" /\ Falsy(o.text)

\* C15: an analysis response without text fails the scan: the status never
\* becomes COMPLETED for it (no default object stands in for the missing
\* text), and the scan ends in ERROR with the build's empty-response message.
C15_EmptyTextIsError ==
  \A o \in hist.ana : NoTextOutcome(o) =>
    /\ status # "COMPLETED"
    /\ ~Pending(Current) => status \in {"ERROR", "IDLE"}
    /\ (status = "ERROR" /\ ~Pending(Current)) => error = Some(EmptyMessage(impl))

\* The analysis call returned text that is not JSON.
Unparseable(o) == o.k = "ok" /\ (\E t \in o.text : t.kind = "garbage")

\* C16: analysis text that is not parseable JSON fails the scan: the status
\* never becomes COMPLETED for it, the scan ends in ERROR, and the step that
\* takes the text in leaves the stored result as it was (nothing derived from
\* the payload is kept).
C16_UnparseableTextIsError ==
  /\ [](\A o \in hist.ana : Unparseable(o) =>
          /\ status # "COMPLETED"
          /\ ~Pending(Current) => (status \in {"ERROR", "IDLE"} /\ (status = "ERROR" => error # Null)))
  /\ [][\A o \in hist.ana' : (hist.ana = Null /\ Unparseable(o)) => result' = result]_vars

\* A scan ended in ERROR on unparseable text, with the parser's message.
C16_Witness ==
  /\ status = "ERROR"
  /\ ~Pending(Current)
  /\ error = Some("Unexpected token in JSON")
  /\ \E o \in hist.ana : Unparseable(o)

\* The analysis request threw or came back with an HTTP status that is not OK.
RemoteFailure(o) == o.k \in {"reject", "http"}

\* The fixed messages the builds fall back to when the failure carries none.
FixedFallbacks == {"API error"} \cup {CatchFallback(i) : i \in Impls \ {"App1"}}

\* C17: a remote failure of the analysis request fails the scan: the status
\* never becomes COMPLETED for it, the scan ends in ERROR, and the stored
\* error is the provider's message when the failure carries one and a fixed
\* fallback message otherwise.
C17_RemoteFailureIsError ==
  \A o \in hist.ana : RemoteFailure(o) =>
    /\ status # "COMPLETED"
    /\ ~Pending(Current) => status \in {"ERROR", "IDLE"}
    /\ (status = "ERROR" /\ ~Pending(Current)) =>
         IF o.msg \notin {Null, Some("")}
           THEN error = o.msg
           ELSE error \in {Some(m) : m \in FixedFallbacks}

\* C18: no automatic retry.  Only startScan() sends a capture request, and at
\* most one per invocation; an analysis request is issued only while no
\* analysis of the scan is pending or has returned, so at most one per scan;
\* and once the scan has failed no request is issued until the user starts a
\* scan again.
C18_NoAutomaticRetry ==
  /\ [](nCapSent <= nStart /\ nAnaSent <= nStart)
  /\ [][/\ nStart' = nStart => nCapSent' = nCapSent
        /\ nAnaSent' # nAnaSent =>
             /\ nAnaSent' = nAnaSent + 1
             /\ hist.ana = Null
             /\ \A id \in ScanIds : ~InAnalysis(task[id])
        /\ (status = "ERROR" /\ nStart' = nStart) =>
             (nCapSent' = nCapSent /\ nAnaSent' = nAnaSent)]_vars

\* Two scans, each with one capture request and one analysis request; the
\* second failed in its analysis and nothing is pending.
C18_Witness ==
  /\ status = "ERROR"
  /\ nStart = 2 /\ nCapSent = 2 /\ nAnaSent = 2
  /\ hist.ana # Null
  /\ \A id \in ScanIds : ~Pending(task[id])

\* Chains with a capture request outstanding (sent and not yet handled by the
\* popup's callback) and chains with an analysis call outstanding.
OutstandingCaptures == {id \in ScanIds : task[id].ph \in {"sent", "capturing", "unanswered", "responded"}}
OutstandingAnalyses == {id \in ScanIds : task[id].ph = "fetching"}

\* C19: at most one scan is in flight: outstanding capture requests plus
\* outstanding analysis calls number at most one, and none whenever the
\* status is IDLE, COMPLETED or ERROR.
C19_AtMostOneScanInFlight ==
  /\ Cardinality(OutstandingCaptures) + Cardinality(OutstandingAnalyses) <= 1
  /\ status \in {"IDLE", "COMPLETED", "ERROR"} =>
       (OutstandingCaptures = {} /\ OutstandingAnalyses = {})

\* The second scan of the session has its analysis call outstanding, the
\* first has nothing left.
C19_Witness ==
  /\ status = "SCANNING"
  /\ nStart = 2
  /\ OutstandingAnalyses = {2}
  /\ OutstandingCaptures = {}
  /\ task[1].ph = "done"

\* C20: whenever the status is ERROR the stored error is a message: neither
\* null nor the empty string, whichever failure (capture, remote, missing
\* text, unparseable text) ended the scan.
C20_ErrorHasMessage == status = "ERROR" => (error # Null /\ error # Some(""))

\* The analysis call returned JSON text that encodes every required field.
CompleteOutcome(o) ==
  o.k = "ok" /\ (\E t \in o.text : t.kind = "json" /\ (\E v \in t.v : HasAllRequired(v)))

\* C21: end-to-end success.  When the capture returned an image and the
\* analysis returned JSON text with all required fields, the scan ends in
\* COMPLETED, and while the status is COMPLETED the result is exactly the
\* structure the text encodes and the error is null.
C21_SuccessStoresExactResult ==
  \A o \in hist.ana :
    (CompleteOutcome(o) /\ (\E s \in hist.seen : s.resp.dataUrl # Null)) =>
      /\ status \in {"COMPLETED", "IDLE"}
      /\ status = "COMPLETED" => (result = The(o.text).v /\ error = Null)

\* C22: capture and analysis completions are consumed only while the status
\* is SCANNING.  A step that is neither startScan nor a reset and that writes
\* status, result or error (the capture callback, the analysis continuation)
\* is taken from a state whose status is SCANNING.
C22_CompletionsOnlyWhileScanning ==
  [][(/\ instance' = instance /\ nStart' = nStart /\ status' # "IDLE"
      /\ <<status, result, error>>' # <<status, result, error>>)
     => status = "SCANNING"]_vars

\* C23: exactly one variant of the scan state is active.  While the status is
\* COMPLETED the result is non-null and the error is null; while the status is
\* ERROR the error is non-null.
C23_OneVariantActive ==
  /\ status = "COMPLETED" => (result # Null /\ error = Null)
  /\ status = "ERROR" => error # Null

\* C24: a result is held only while the scan is COMPLETED: while the status is
\* IDLE, SCANNING or ERROR the result is null.
C24_ResultOnlyWhileCompleted ==
  status \in {"IDLE", "SCANNING", "ERROR"} => result = Null

\* C25: every popup instance starts with status IDLE, result null and error
\* null: the first one, and every later one whatever the instance before it
\* had scanned.
C25_InstanceStartsIdle ==
  /\ (status = "IDLE" /\ result = Null /\ error = Null)
  /\ [][instance' # instance => (status' = "IDLE" /\ result' = Null /\ error' = Null)]_vars

\* The second instance has just been opened after the first one ran a scan
\* through its analysis.
C25_Witness ==
  /\ instance = 2
  /\ nStart = 1 /\ nAnaSent = 1
  /\ task[1].ph = "done" /\ ~task[1].orphan
  /\ status = "IDLE" /\ result = Null /\ error = Null
  /\ hist = NoHistory

\* C26: rendering only reads the scan state.  The state is always what the
\* last handler assigned before it rendered; a reset, which assigns the status
\* and renders, sends no capture or analysis request; and status, result and
\* error change only in startScan, in a completion of a scan's chain, or in a
\* reset.
C26_RenderOnlyReads ==
  /\ [](<<status, result, error>> = hist.wrote)
  /\ [][/\ (status \in Terminal /\ status' = "IDLE") =>
             (nCapSent' = nCapSent /\ nAnaSent' = nAnaSent)
        /\ <<status, result, error>>' # <<status, result, error>> =>
             \/ nStart' # nStart
             \/ task' # task
             \/ (status \in Terminal /\ status' = "IDLE")]_vars

\* render() has drawn the COMPLETED view of a stored result.
C26_Witness ==
  /\ status = "COMPLETED"
  /\ view = "COMPLETED"
  /\ result # Null
  /\ hist.wrote = <<"COMPLETED", result, error>>

\* C27: a scan whose popup was closed while it was in flight has no observable
\* effect.  No step of its chain changes status, result, error or view of the
\* popup that is open, or issues a capture or analysis request; and its chain
\* never reaches the analysis call.
C27_OrphanHasNoEffect ==
  /\ [](\A id \in ScanIds :
          task[id].orphan => task[id].ph \notin {"timer", "fetching", "rejected"})
  /\ [][(\E id \in ScanIds : task[id].orphan /\ task'[id] # task[id]) =>
          UNCHANGED <<status, result, error, view, nCapSent, nAnaSent, hist>>]_vars

\* The worker has answered, with an image, a request whose popup was closed;
\* a second instance is open.
C27_Witness ==
  /\ instance = 2
  /\ \E id \in ScanIds :
       /\ task[id].orphan
       /\ task[id].ph = "responded"
       /\ task[id].resp.dataUrl # Null

\* C28: terminal states are stable.  From a state whose status is COMPLETED or
\* ERROR, a step of the popup either is a reset (the status becomes IDLE) or
\* leaves status, result and error as they are: no completion and no rendering
\* moves the status between COMPLETED and ERROR.
C28_TerminalIsStable ==
  [][(status \in Terminal /\ instance' = instance) =>
       (status' = "IDLE" \/ UNCHANGED <<status, result, error>>)]_vars

\* C29: the view offers the start intent only when the status is IDLE and the
\* reset / retry intent only when the status is COMPLETED or ERROR; while the
\* status is SCANNING no intent is bound, and no step taken in SCANNING is a
\* startScan or a reset.
C29_ViewBindsIntentsByStatus ==
  /\ [](/\ "start" \in Bound(view) => status = "IDLE"
        /\ Bound(view) \cap {"reset", "retry"} # {} => status \in Terminal
        /\ status = "SCANNING" => Bound(view) = {})
  /\ [][(status = "SCANNING" /\ instance' = instance) =>
          (nStart' = nStart /\ status' # "IDLE")]_vars

\* The spinner is shown while a scan is in flight, and nothing is bound.
C29_Witness ==
  /\ status = "SCANNING"
  /\ view = "SCANNING"
  /\ Bound(view) = {}
  /\ Current.ph = "fetching"

\* C30: when the status becomes COMPLETED, the result is the value that
\* performAnalysis made of the response to the current scan (the one started
\* by the most recent startScan), and the step is the completion of that
\* scan's analysis call: never a result left over from an earlier scan.
C30_ResultIsOfCurrentScan ==
  [][(status # "COMPLETED" /\ status' = "COMPLETED") =>
       /\ Current.ph = "fetching"
       /\ Current' # Current
       /\ \E o \in hist'.ana :
            /\ o.k = "ok"
            /\ result' = JSONparse(The(TextOrDefault(impl, o.text))).v]_vars

\* The second scan of the session completed with the full result, after a
\* first scan that had its analysis too.
C30_Witness ==
  /\ status = "COMPLETED"
  /\ nStart = 2 /\ nAnaSent = 2
  /\ task[1].ph = "done"
  /\ result = Some(FullResult)
  /\ \E o \in hist.ana : o.text = Some([kind |-> "json", v |-> Some(FullResult)])

\* C31: a capture callback invoked with no response at all (undefined: nobody
\* answered, lastError is set) ends the scan at once: no analysis request is
\* issued for it, the popup does not stay in SCANNING, and the status is ERROR
\* with a non-empty message until the user resets.
C31_NoResponseIsError ==
  \A s \in hist.seen : ~s.resp.def =>
    /\ hist.ana = Null
    /\ Current.ph = "done" /\ Current.src = "none"
    /\ status \in {"ERROR", "IDLE"}
    /\ status = "ERROR" => (error # Null /\ error # Some(""))

\* No listener took the request; the scan failed without any analysis.
C31_Witness ==
  /\ status = "ERROR"
  /\ nAnaSent = 0
  /\ \E s \in hist.seen : ~s.resp.def /\ s.lastError = Some(NoReceiverError)

\* C32: a message whose action is not "capture_tab" makes the worker capture
\* nothing, send no response and leave the response channel closed (the
\* listener does not return true); every capture the worker runs was started
\* by a capture_tab request of a scan.
C32_OnlyCaptureTabCaptures ==
  /\ worker.captures = 0
  /\ worker.responses = 0
  /\ worker.kept = 0
  /\ \A id \in ScanIds : task[id].ph = "capturing" => (task[id].recv /\ id <= nCapSent)

\* The worker received two other messages, the last one the content script's
\* command, while a scan's capture is pending.
C32_Witness ==
  /\ worker.n = 2
  /\ worker.last = Some([action |-> "get_media_info"])
  /\ \E id \in ScanIds : task[id].ph = "capturing"

\* C33: when the extension runtime is unavailable, startScan of App.tsx sends
\* no capture request and issues no analysis request, and ends with the
\* status ERROR and the error "Extension environment unavailable.", nothing
\* being left to run.
C33_UnavailableRuntimeIsError ==
  /\ []((impl = "App" /\ ~chromeAvail) => (nCapSent = 0 /\ nAnaSent = 0))
  /\ [][(impl = "App" /\ ~chromeAvail /\ nStart' = nStart + 1) =>
          /\ nCapSent' = nCapSent /\ nAnaSent' = nAnaSent
          /\ status' = "ERROR"
          /\ error' = Some("Extension environment unavailable.")
          /\ \A id \in ScanIds : ~Pending(task'[id])]_vars

\* App.tsx without a runtime, after its first startScan.
C33_Witness ==
  /\ impl = "App" /\ ~chromeAvail
  /\ nStart = 1 /\ nCapSent = 0 /\ nAnaSent = 0
  /\ status = "ERROR"
  /\ error = Some("Extension environment unavailable.")
  /\ view = "ERROR"

====
